---- MODULE Spec2Model ----
(***************************************************************************)
(* Receipt ingestion: the SQLite store (Database/db_manager.py), the       *)
(* upload / delete handlers (Modules/app_functions.py) and the OCR-to-JSON *)
(* ingestion run (Modules/ocr_groq.py), as seen by two Streamlit sessions  *)
(* that share documents.db and the folders Images and Extracted_JSON.      *)
(*                                                                         *)
(* Money is kept in cents.  File names and currency codes are sequences of *)
(* characters.  A text returned by the language model is a sequence of     *)
(* tokens "{", "}", "x" (prose) and "d", the serialised members of the     *)
(* JSON object carried next to the text.                                   *)
(***************************************************************************)
EXTENDS Integers, Sequences, FiniteSets, TLC

VARIABLES receipts, extracted_data, receipt_items, seq, itemCols,
          images, artifacts, everListed,
          pc, loc, status, lastIns, dbLock, lastRun, ops, session_state

(* receipts, extracted_data, receipt_items: the rows of the three tables of *)
(*   documents.db; seq: the largest AUTOINCREMENT key each table has given  *)
(*   out; itemCols: the columns receipt_items has in this database file.    *)
(* images, artifacts: the files of the folders Images and Extracted_JSON    *)
(*   (an artifact with its content and, for the record, the image whose run *)
(*   wrote it).                                                             *)
(* everListed: the File_paths a session's list of receipts rows may show    *)
(*   (the list is read once per session and is not refreshed).              *)
(* pc, loc, status: per session, the position in the handler it runs, the   *)
(*   handler's locals, and the message the handler showed last.             *)
(* lastIns: per session, the outcome of its latest insert_data call.        *)
(* dbLock: the session whose connection holds SQLite's write lock, or 0.    *)
(* lastRun: the latest ingestion run that reported success, if no other     *)
(*   handler has started since.                                             *)
(* ops: the number of handlers started.                                     *)
(* session_state: per session, the keys of st.session_state that            *)
(*   fix_json_data keeps (and, for the record, the image in process when    *)
(*   their value was made).                                                 *)
vars == <<receipts, extracted_data, receipt_items, seq, itemCols,
          images, artifacts, everListed,
          pc, loc, status, lastIns, dbLock, lastRun, ops, session_state>>

\* A nullable value (a column, a JSON leaf, a local that may be None) is the
\* empty sequence for None / NULL and a one-element sequence otherwise.
None == <<>>
Some(v) == <<v>>

\* Number of operations (upload, ingestion, delete) started in one behaviour.
MaxOps == 3

\* The Streamlit sessions that share the database and the folders.
Sessions == {1, 2}

\* Uploaded file names: two share the stem "a", one has the stem "b".
Files == { <<"a", ".", "jpg">>, <<"a", ".", "png">>, <<"b", ".", "jpg">> }

----------------------------------------------------------------------------
(* os.path.splitext and the artifact name                                  *)

\* Positions of a dot that has a character other than a dot before it.
SplitDots(name) ==
    { i \in 1..Len(name) : name[i] = "." /\ \E j \in 1..(i-1) : name[j] # "." }

Max(S) == CHOOSE m \in S : \A n \in S : n <= m

\* os.path.splitext(name)[0]: the name up to its last dot, leading dots kept.
Stem(name) ==
    IF SplitDots(name) = {} THEN name ELSE SubSeq(name, 1, Max(SplitDots(name)) - 1)

\* os.path.splitext(selected_image)[0] + ".json"
JsonFilename(name) == Stem(name) \o <<".json">>

JsonNames == { JsonFilename(f) : f \in Files }

----------------------------------------------------------------------------
(* The schema created by init_database                                     *)

ReceiptsColumns == {"Id", "File_path", "Upload_date"}

\* The seven free-text columns of extracted_data carry no constraint and are
\* copied verbatim; the model keeps the key and the two checked columns.
ExtractedColumns == {"id", "receipt_id", "total_price", "total_currency"}

\* receipt_items as CREATE TABLE declares it.
ItemColumnsDDL == {"id", "extracted_data_id", "name", "price", "currency",
                   "discount_percent", "discount_value"}

\* CREATE TABLE IF NOT EXISTS keeps a receipt_items table that is already in
\* documents.db; the reader and the writer of the items both name the
\* columns quantity and absolute_discount.
ItemColumnsLegacy == ItemColumnsDDL \cup {"quantity", "absolute_discount"}

Columns(table) ==
    CASE table = "receipts" -> ReceiptsColumns
      [] table = "extracted_data" -> ExtractedColumns
      [] table = "receipt_items" -> itemCols

\* sqlite3.connect never issues PRAGMA foreign_keys = ON, so SQLite parses
\* the FOREIGN KEY ... ON DELETE CASCADE clauses and does not enforce them.
ForeignKeysEnforced == FALSE

----------------------------------------------------------------------------
(* JSON values and the outputs of the two model calls                      *)

\* JSON null where an object or a list is expected, a JSON list, a JSON string.
JNull == [null |-> TRUE]
JList(s) == [list |-> s]
JStr == [str |-> TRUE]

IsDict(v) == DOMAIN v \cap {"null", "list", "str"} = {}
IsList(v) == "list" \in DOMAIN v

\* dict.get(key): None when the key is absent.
Get(d, key) == IF key \in DOMAIN d THEN d[key] ELSE None

EUR == <<"E", "U", "R">>
EU == <<"E", "U">>

Total950 == [valore |-> Some(950), valuta |-> Some(EUR)]

\* {"nome": "Pane", "quantita": 2, "prezzo": 1.00, "valuta": "EUR"}
Pane == [nome |-> Some("Pane"), quantita |-> Some(2), prezzo |-> Some(100),
         valuta |-> Some(EUR)]
\* An item whose name the model did not read.
NoName == [quantita |-> Some(1), prezzo |-> Some(250), valuta |-> Some(EUR)]

\* An item with a discount: the discounted value the model wrote (1.50) is
\* not the 10 % off 2.00.
Latte == [nome |-> Some("Latte"), quantita |-> Some(1), prezzo |-> Some(200),
          valuta |-> Some(EUR), percentuale_sconto |-> Some(10),
          valore_scontato |-> Some(150)]
\* An item whose price the model did not read.
Acqua == [nome |-> Some("Acqua"), quantita |-> Some(1), valuta |-> Some(EUR)]

\* The parsed objects the ingestion is run on.
Records ==
    { [prezzo_totale |-> Total950, lista_articoli |-> JList(<<>>)],
      [prezzo_totale |-> Total950, lista_articoli |-> JList(<<Pane>>)],
      [prezzo_totale |-> Total950, lista_articoli |-> JList(<<NoName, Pane>>)],
      [prezzo_totale |-> Total950, lista_articoli |-> JList(<<Pane, JStr>>)],
      [prezzo_totale |-> Total950, lista_articoli |-> JList(<<Latte, Acqua>>)],
      [prezzo_totale |-> [valore |-> Some(-100), valuta |-> Some(EUR)],
       lista_articoli |-> JList(<<Pane>>)],
      [prezzo_totale |-> [valore |-> Some(950), valuta |-> Some(EU)]],
      [prezzo_totale |-> JNull, lista_articoli |-> JList(<<Pane>>)],
      [lista_articoli |-> JNull] }

\* What a run of fix_json_data meets: whether the comparison call answers
\* "DATI COERENTI", what the user has typed into the editor (None: nothing,
\* the editor returns the value it was given), and whether st.button
\* ("Conferma dati corretti") returns True in this run.
Review(coherent, edit, button) ==
    [coherent |-> coherent, edit |-> edit, button |-> button]

Coherent == Review(TRUE, None, FALSE)

\* st.session_state without the keys corrected_json_text and
\* corrected_json_final.
NoCorrection ==
    [corrected_json_text |-> None, text_image |-> None,
     corrected_json_final |-> None, final_image |-> None]

\* An editor content that json.loads rejects.
NotJson == [notjson |-> TRUE]

\* One run's answers of the OCR call and of the JSON call: either call may
\* raise; the JSON text holds the members "d" of payload.  The comparison
\* of such a run answers "DATI COERENTI".
Extraction(ocrRaises, ocrText, llmRaises, llmText, payload) ==
    [ocr_raises |-> ocrRaises, ocr_text |-> ocrText,
     llm_raises |-> llmRaises, llm_text |-> llmText, payload |-> payload,
     review |-> Coherent]

Extractions ==
    { Extraction(TRUE, <<>>, FALSE, <<>>, JNull),
      Extraction(FALSE, <<>>, FALSE, <<>>, JNull),
      Extraction(FALSE, <<" ">>, FALSE, <<>>, JNull),
      Extraction(FALSE, <<"T">>, TRUE, <<>>, JNull),
      Extraction(FALSE, <<"T">>, FALSE, <<"x">>, JNull),
      Extraction(FALSE, <<"T">>, FALSE, <<"{", "x">>, JNull),
      Extraction(FALSE, <<"T">>, FALSE, <<" ", "{", "x", "}">>, JNull) }
    \cup { Extraction(FALSE, <<"T">>, FALSE, <<"x", "{", "d", "}", " ">>, r) :
             r \in Records }

\* str.strip(): leading and trailing blanks removed.
RECURSIVE Strip(_)
Strip(t) ==
    IF t = <<>> THEN t
    ELSE IF Head(t) = " " THEN Strip(Tail(t))
    ELSE IF t[Len(t)] = " " THEN Strip(SubSeq(t, 1, Len(t) - 1))
    ELSE t

Min(S) == CHOOSE m \in S : \A n \in S : m <= n

\* The pattern written with a lazy star, \{.*?\}: the match ends at the
\* first "}" after the start.
MatchAt_Lazy(text, i) ==
    LET closes == { j \in (i+1)..Len(text) : text[j] = "}" }
    IN  IF text[i] # "{" \/ closes = {} THEN None ELSE Some(Min(closes))

\* The pattern \{.*\} with re.DOTALL tried at position i: "{" there, then
\* the greedy star takes the rest of the text and gives characters back
\* until a "}" follows.  The position the match ends at, or None.
MatchAt(text, i) ==
    LET closes == { j \in (i+1)..Len(text) : text[j] = "}" }
    IN  IF text[i] # "{" \/ closes = {} THEN None ELSE Some(Max(closes))

\* The search with the pattern \{.* instead: a "{" alone starts a match, which
\* the greedy star extends to the end of the text.
parse_json_from_string_OpenBrace(text) ==
    LET opens == { i \in 1..Len(text) : text[i] = "{" }
    IN  IF opens = {} THEN None
        ELSE Some(SubSeq(text, Min(opens), Len(text)))

\* pattern.search(text): the match at the leftmost position where the
\* pattern matches; match.group(0), or None when it matches nowhere.
parse_json_from_string(text) ==
    LET starts == { i \in 1..Len(text) : MatchAt(text, i) # None }
    IN  IF starts = {} THEN None
        ELSE Some(SubSeq(text, Min(starts), MatchAt(text, Min(starts))[1]))

\* json.loads on the span: the span is a JSON document exactly when it is
\* one object holding the members; anything else is a JSONDecodeError.
JsonLoadsOk(span) == span = <<"{", "d", "}">>

----------------------------------------------------------------------------
(* Database/db_manager.py                                                  *)

Tables == {"receipts", "extracted_data", "receipt_items"}

Table(table) ==
    CASE table = "receipts" -> receipts
      [] table = "extracted_data" -> extracted_data
      [] table = "receipt_items" -> receipt_items

\* NOT NULL columns of each table.
NotNullColumns(table) ==
    CASE table = "receipts" -> {}
      [] table = "extracted_data" -> {"receipt_id"}
      [] table = "receipt_items" -> {"extracted_data_id", "name"}

\* CHECK (col >= 0); a NULL passes a CHECK.
NonNegative(v) == v = None \/ v[1] >= 0
\* CHECK (LENGTH(col) = 3)
ThreeChars(v) == v = None \/ Len(v[1]) = 3
\* CHECK (col >= 0 AND col <= 100)
Percent(v) == v = None \/ (v[1] >= 0 /\ v[1] <= 100)

\* The CHECK constraints of a table on the row to be inserted.
ChecksPass(table, row) ==
    CASE table = "receipts" -> TRUE
      [] table = "extracted_data" ->
            /\ NonNegative(Get(row, "total_price"))
            /\ ThreeChars(Get(row, "total_currency"))
      [] table = "receipt_items" ->
            /\ NonNegative(Get(row, "price"))
            /\ ThreeChars(Get(row, "currency"))
            /\ Percent(Get(row, "discount_percent"))
            /\ NonNegative(Get(row, "discount_value"))

\* A receipts table declared without UNIQUE on File_path.
UniqueViolated_NotDeclared(table, row) == FALSE

\* File_path TEXT UNIQUE: a stored row has the same non-NULL File_path.
UniqueViolated(table, row) ==
    /\ table = "receipts"
    /\ Get(row, "File_path") # None
    /\ \E r \in receipts : r.File_path = row.File_path

\* FOREIGN KEY(...) REFERENCES parent: the parent row is missing.
ForeignKeyViolated(table, row) ==
    /\ ForeignKeysEnforced
    /\ CASE table = "receipts" -> FALSE
         [] table = "extracted_data" ->
               /\ Get(row, "receipt_id") # None
               /\ \A r \in receipts : r.Id # row.receipt_id[1]
         [] table = "receipt_items" ->
               /\ Get(row, "extracted_data_id") # None
               /\ \A e \in extracted_data : e.id # row.extracted_data_id[1]

\* A key that is the largest key stored in the table plus one (INTEGER
\* PRIMARY KEY without AUTOINCREMENT): the key of a deleted last row is
\* given out again.
NextId_MaxRowid(table) ==
    Max({0} \cup (CASE table = "receipts" -> { r.Id : r \in receipts }
                  [] table = "extracted_data" -> { e.id : e \in extracted_data }
                  [] table = "receipt_items" -> { i.id : i \in receipt_items })) + 1

\* INTEGER PRIMARY KEY AUTOINCREMENT: the key is one more than the largest
\* key the table has ever given out (sqlite_sequence), deleted rows included.
NextId(table) == seq[table] + 1

\* insert_data(db_name, table_name, data_dict): what the call returns
\* ("raise" when the exception is not an IntegrityError and leaves the
\* function), which failure SQLite met, and the id the new row gets.
insert_data(table, row) ==
    IF ~(DOMAIN row \subseteq Columns(table))
      THEN [ret |-> "raise", fail |-> "no_column", id |-> 0]
    ELSE IF \E c \in NotNullColumns(table) : Get(row, c) = None
      THEN [ret |-> "exists", fail |-> "not_null", id |-> 0]
    ELSE IF ~ChecksPass(table, row)
      THEN [ret |-> "exists", fail |-> "check", id |-> 0]
    ELSE IF UniqueViolated(table, row)
      THEN [ret |-> "exists", fail |-> "unique", id |-> 0]
    ELSE IF ForeignKeyViolated(table, row)
      THEN [ret |-> "exists", fail |-> "foreign_key", id |-> 0]
    ELSE [ret |-> "inserted", fail |-> "none", id |-> NextId(table)]

\* The row as stored: the AUTOINCREMENT key and the columns of the dict.
ReceiptRow(id, row) == [Id |-> id, File_path |-> row.File_path]
ExtractedRow(id, row) ==
    [id |-> id, receipt_id |-> row.receipt_id,
     total_price |-> Get(row, "total_price"),
     total_currency |-> Get(row, "total_currency")]
ItemRow(id, row) ==
    [id |-> id, extracted_data_id |-> row.extracted_data_id,
     name |-> row.name, quantity |-> Get(row, "quantity"),
     price |-> Get(row, "price"), currency |-> Get(row, "currency"),
     discount_percent |-> Get(row, "discount_percent"),
     absolute_discount |-> Get(row, "absolute_discount"),
     discount_value |-> Get(row, "discount_value")]

\* c.execute(INSERT) and conn.commit() of insert_data on the three tables.
InsertCommit(table, row, res) ==
    LET ok == res.ret = "inserted" IN
    /\ receipts' = IF ok /\ table = "receipts"
                     THEN receipts \cup {ReceiptRow(res.id, row)} ELSE receipts
    /\ extracted_data' = IF ok /\ table = "extracted_data"
                     THEN extracted_data \cup {ExtractedRow(res.id, row)}
                     ELSE extracted_data
    /\ receipt_items' = IF ok /\ table = "receipt_items"
                     THEN receipt_items \cup {ItemRow(res.id, row)}
                     ELSE receipt_items
    /\ seq' = IF ok THEN [seq EXCEPT ![table] = res.id] ELSE seq

\* Whether a stored row already holds the unique key of the row to insert
\* (the generated primary key never collides).
KeyStored(table, row) ==
    /\ table = "receipts"
    /\ \E r \in receipts : r.File_path = Get(row, "File_path")

\* What the session remembers of its latest insert_data call.
InsertLog(table, row, res) ==
    [table |-> table, ret |-> res.ret, fail |-> res.fail,
     key_stored |-> KeyStored(table, row)]

NoInsert == [table |-> "none", ret |-> "none", fail |-> "none", key_stored |-> FALSE]

\* get_data(db, "receipts", "Id", {"File_path": image}): rows[0][0] or None.
ReceiptIdOf(file) ==
    LET ids == { r.Id : r \in { q \in receipts : q.File_path = Some(file) } }
    IN  IF ids = {} THEN None ELSE Some(CHOOSE i \in ids : \A j \in ids : i <= j)

\* get_data(db, "extracted_data", ["id"], {"receipt_id": rid}): rows[-1][0]
\* (rows come in rowid order) or None.
LastExtractedId(rid) ==
    LET ids == { e.id : e \in { q \in extracted_data : q.receipt_id = rid } }
    IN  IF ids = {} THEN None ELSE Some(Max(ids))

\* delete_data(db, "receipts", {"File_path": file}); the descendants go with
\* the row only when SQLite enforces the foreign keys.
ReceiptsAfterDelete(file) == { r \in receipts : r.File_path # Some(file) }

ExtractedAfterDelete(file) ==
    IF ForeignKeysEnforced
      THEN { e \in extracted_data :
               \E r \in ReceiptsAfterDelete(file) : Some(r.Id) = e.receipt_id }
      ELSE extracted_data

ItemsAfterDelete(file) ==
    IF ForeignKeysEnforced
      THEN { i \in receipt_items :
               \E e \in ExtractedAfterDelete(file) : Some(e.id) = i.extracted_data_id }
      ELSE receipt_items

----------------------------------------------------------------------------
(* Sessions                                                                *)

NoRun == [none |-> TRUE]

\* The locals of the handler a session is running (or ran last).
IdleLoc == [op |-> "none", file |-> <<>>, x |-> JNull, data |-> JNull,
            rid |-> None, hid |-> None, edid |-> None, idx |-> 0,
            hdr |-> "none", rerun |-> FALSE, raw |-> None]

\* A session starts a handler: its locals are fresh.  What an idle session
\* still shows of the handler it finished (locals, message, latest insert)
\* is dropped when the next handler starts, and a run of another session that
\* overlaps this one is no longer a run "in sequence".
Start(s, new, st) ==
    /\ pc[s] = "idle"
    /\ ops < MaxOps
    /\ ops' = ops + 1
    /\ loc' = [t \in Sessions |->
                 IF t = s THEN new
                 ELSE IF pc[t] = "idle" THEN IdleLoc
                 ELSE [loc[t] EXCEPT !.rerun = FALSE]]
    /\ status' = [t \in Sessions |->
                    IF t = s THEN st
                    ELSE IF pc[t] = "idle" THEN "none" ELSE status[t]]
    /\ lastIns' = [t \in Sessions |->
                     IF t = s \/ pc[t] = "idle" THEN NoInsert ELSE lastIns[t]]

Init ==
    /\ receipts = {}
    /\ extracted_data = {}
    /\ receipt_items = {}
    /\ seq = [t \in Tables |-> 0]
    /\ itemCols \in {ItemColumnsDDL, ItemColumnsLegacy}
    /\ images = {}
    /\ artifacts = {}
    /\ everListed = {}
    /\ pc = [s \in Sessions |-> "idle"]
    /\ loc = [s \in Sessions |-> IdleLoc]
    /\ status = [s \in Sessions |-> "none"]
    /\ lastIns = [s \in Sessions |-> NoInsert]
    /\ dbLock = 0
    /\ lastRun = NoRun
    /\ session_state = [s \in Sessions |-> NoCorrection]
    /\ ops = 0

dbVars == <<receipts, extracted_data, receipt_items, seq>>

----------------------------------------------------------------------------
(* Modules/app_functions.py: upload                                        *)

\* An upload that writes the file without the test os.path.exists.
UploadBegin_NoExistsCheck(s, f) ==
    /\ Start(s, [IdleLoc EXCEPT !.op = "upload", !.file = f], "running")
    /\ pc' = [pc EXCEPT ![s] = "write_image"]
    /\ lastRun' = NoRun
    /\ UNCHANGED <<dbVars, itemCols, images, artifacts, everListed, dbLock,
                   session_state>>

\* save_image_to_folder up to os.path.exists: an existing file is skipped
\* (skipped_files_folder) and the loop continues with the next file.
UploadBegin(s, f) ==
    /\ Start(s, [IdleLoc EXCEPT !.op = "upload", !.file = f],
             IF f \in images THEN "skipped_folder" ELSE "running")
    /\ pc' = IF f \in images THEN pc ELSE [pc EXCEPT ![s] = "write_image"]
    /\ lastRun' = NoRun
    /\ UNCHANGED <<dbVars, itemCols, images, artifacts, everListed, dbLock,
                   session_state>>

\* save_image_to_folder: open(file_path, "wb") and write.
WriteImage(s) ==
    /\ pc[s] = "write_image"
    /\ images' = images \cup {loc[s].file}
    /\ pc' = [pc EXCEPT ![s] = "insert_receipt"]
    /\ UNCHANGED <<dbVars, itemCols, artifacts, everListed, loc, status, lastIns,
                   dbLock, lastRun, ops, session_state>>

\* What process_uploaded_file counts the file as after insert_data.
UploadStatus(ret) ==
    CASE ret = "inserted" -> "saved"
      [] ret = "exists" -> "skipped_db"
      [] OTHER -> "raised"

\* insert_data("documents.db", "receipts", {"File_path": uploaded_file.name})
InsertReceipt(s) ==
    LET row == [File_path |-> Some(loc[s].file)]
        res == insert_data("receipts", row)
    IN  /\ pc[s] = "insert_receipt"
        /\ InsertCommit("receipts", row, res)
        /\ lastIns' = [lastIns EXCEPT ![s] = InsertLog("receipts", row, res)]
        /\ everListed' = IF res.ret = "inserted"
                            THEN everListed \cup {loc[s].file} ELSE everListed
        /\ status' = [status EXCEPT ![s] = UploadStatus(res.ret)]
        /\ pc' = [pc EXCEPT ![s] = "idle"]
        /\ UNCHANGED <<itemCols, images, artifacts, loc, dbLock, lastRun, ops,
                       session_state>>

----------------------------------------------------------------------------
(* Modules/app_functions.py: delete                                        *)

\* delete_file_from_database_and_folder, confirmed, for a file the session
\* lists: delete_data on receipts.
DeleteRow(s, f) ==
    /\ f \in everListed
    /\ Start(s, [IdleLoc EXCEPT !.op = "delete", !.file = f,
                                !.rid = ReceiptIdOf(f)], "running")
    /\ receipts' = ReceiptsAfterDelete(f)
    /\ extracted_data' = ExtractedAfterDelete(f)
    /\ receipt_items' = ItemsAfterDelete(f)
    /\ pc' = [pc EXCEPT ![s] = "delete_image"]
    /\ lastRun' = NoRun
    /\ UNCHANGED <<seq, itemCols, images, artifacts, everListed, dbLock,
                   session_state>>

\* os.remove without the test os.path.exists: a missing file raises
\* FileNotFoundError and the handler ends there.
DeleteImage_NoExistsCheck(s) ==
    /\ pc[s] = "delete_image"
    /\ images' = images \ {loc[s].file}
    /\ IF loc[s].file \in images
         THEN /\ pc' = [pc EXCEPT ![s] = "delete_json"]
              /\ UNCHANGED status
         ELSE /\ pc' = [pc EXCEPT ![s] = "idle"]
              /\ status' = [status EXCEPT ![s] = "raised"]
    /\ UNCHANGED <<dbVars, itemCols, artifacts, everListed, loc, lastIns,
                   dbLock, lastRun, ops, session_state>>

\* delete_image_from_folder: os.remove when the file exists.
DeleteImage(s) ==
    /\ pc[s] = "delete_image"
    /\ images' = images \ {loc[s].file}
    /\ pc' = [pc EXCEPT ![s] = "delete_json"]
    /\ UNCHANGED <<dbVars, itemCols, artifacts, everListed, loc, status, lastIns,
                   dbLock, lastRun, ops, session_state>>

\* delete_json_from_folder(splitext(file_to_delete)[0] + ".json")
DeleteJson(s) ==
    /\ pc[s] = "delete_json"
    /\ artifacts' = { a \in artifacts : a.name # JsonFilename(loc[s].file) }
    /\ status' = [status EXCEPT ![s] = "deleted"]
    /\ pc' = [pc EXCEPT ![s] = "idle"]
    /\ UNCHANGED <<dbVars, itemCols, images, everListed, loc, lastIns, dbLock,
                   lastRun, ops, session_state>>

----------------------------------------------------------------------------
(* Modules/ocr_groq.py: the ingestion run                                  *)

\* A run that saves the raw span before json.loads has looked at it.
EarlyStatus_SaveBeforeLoads(x) ==
    IF x.ocr_raises THEN "raised"
    ELSE IF Strip(x.ocr_text) = <<>> THEN "empty_extraction"
    ELSE IF x.llm_raises THEN "raised"
    ELSE IF parse_json_from_string(Strip(x.llm_text)) = None THEN "no_json_found"
    ELSE "ok"

\* run_ocr_and_save_json up to json.loads: how the run ends early, or "ok".
\* An exception of either model call is outside every try block.
EarlyStatus(x) ==
    IF x.ocr_raises THEN "raised"
    ELSE IF Strip(x.ocr_text) = <<>> THEN "empty_extraction"
    ELSE IF x.llm_raises THEN "raised"
    ELSE IF parse_json_from_string(Strip(x.llm_text)) = None THEN "no_json_found"
    ELSE IF ~JsonLoadsOk(parse_json_from_string(Strip(x.llm_text))[1])
      THEN "invalid_json"
    ELSE "ok"

\* raw_json_string of run_ocr_and_save_json; None also when the run ends
\* before parse_json_from_string is called.
RawJsonString(x) ==
    IF x.ocr_raises \/ Strip(x.ocr_text) = <<>> \/ x.llm_raises THEN None
    ELSE parse_json_from_string(Strip(x.llm_text))

\* fix_json_data(api_key, json_data_dict, ocr_text) in a session whose state
\* is ss, for the image in process: whether the run ends in st.stop(), the
\* dictionary returned otherwise, and the session state afterwards.  When
\* the comparison answers "DATI COERENTI" the dictionary of the run is
\* returned.  Otherwise corrected_json_text is set to the run's JSON only
\* if the key is absent, the editor returns that value or what the user
\* typed, the button stores json.loads of it as corrected_json_final (an
\* exception ends the run), and the run goes on with corrected_json_final
\* if the key is there.
fix_json_data(dict, review, ss, image) ==
    IF review.coherent THEN [stop |-> FALSE, final |-> dict, ss |-> ss]
    ELSE LET absent == ss.corrected_json_text = None
             fresh == absent \/ review.edit # None
             text == IF review.edit # None THEN review.edit[1]
                     ELSE IF absent THEN dict
                     ELSE ss.corrected_json_text[1]
             origin == IF fresh THEN Some(image) ELSE ss.text_image
             withText == [ss EXCEPT !.corrected_json_text = Some(text),
                                    !.text_image = origin]
             confirmed == [withText EXCEPT !.corrected_json_final = Some(text),
                                           !.final_image = origin]
         IN  IF review.button /\ text = NotJson
               THEN [stop |-> TRUE, final |-> JNull, ss |-> withText]
             ELSE IF review.button
               THEN [stop |-> FALSE, final |-> text, ss |-> confirmed]
             ELSE IF ss.corrected_json_final = None
               THEN [stop |-> TRUE, final |-> JNull, ss |-> withText]
             ELSE [stop |-> FALSE, final |-> ss.corrected_json_final[1],
                   ss |-> withText]

\* The message run_ocr_and_save_json shows for save_json_to_db's result.
ReportStatus(db_result) ==
    CASE db_result = "inserted" -> "success"
      [] db_result = "exists" -> "duplicate"
      [] OTHER -> "error"

\* The st.warning calls of a run that ends with the message st: the artifact
\* that exists (save_json_to_folder) and the data that exists in the database.
RunWarnings(st) ==
    CASE st = "artifact_exists" -> {"artifact_exists"}
      [] st = "duplicate" -> {"exists_in_database"}
      [] OTHER -> {}

\* json_data.get("prezzo_totale", {}).get(key)
TotalField(json, key) ==
    IF "prezzo_totale" \in DOMAIN json THEN Get(json.prezzo_totale, key) ELSE None

\* .get on the value of "prezzo_totale" raises AttributeError unless the
\* value is an object.
HeaderRaises(json) ==
    "prezzo_totale" \in DOMAIN json /\ ~IsDict(json.prezzo_totale)

\* The sum of the prices of the entries of a list of items.
RECURSIVE PriceSum(_)
PriceSum(items) ==
    IF items = <<>> THEN 0
    ELSE (IF IsDict(Head(items)) /\ Get(Head(items), "prezzo") # None
            THEN Get(Head(items), "prezzo")[1] ELSE 0) + PriceSum(Tail(items))

\* A header whose total is computed from the items when there are any.
HeaderRow_ItemSum(json, rid) ==
    [receipt_id |-> rid,
     total_price |-> IF "lista_articoli" \in DOMAIN json
                        /\ IsList(json.lista_articoli)
                        /\ json.lista_articoli.list # <<>>
                       THEN Some(PriceSum(json.lista_articoli.list))
                       ELSE IF "prezzo_totale" \in DOMAIN json
                              THEN Get(json.prezzo_totale, "valore") ELSE None,
     total_currency |-> IF "prezzo_totale" \in DOMAIN json
                          THEN Get(json.prezzo_totale, "valuta") ELSE None]

\* extracted_data_row of save_json_to_db.
HeaderRow(json, rid) ==
    [receipt_id |-> rid,
     total_price |-> TotalField(json, "valore"),
     total_currency |-> TotalField(json, "valuta")]

\* json_data.get("lista_articoli", []) can be iterated.
ItemsIterable(json) ==
    "lista_articoli" \notin DOMAIN json \/ IsList(json.lista_articoli)

ItemsOf(json) ==
    IF "lista_articoli" \in DOMAIN json /\ IsList(json.lista_articoli)
      THEN json.lista_articoli.list ELSE <<>>

\* item_row of save_json_to_db.
ItemDict(item, edid) ==
    [extracted_data_id |-> edid,
     name |-> Get(item, "nome"),
     quantity |-> Get(item, "quantita"),
     price |-> Get(item, "prezzo"),
     currency |-> Get(item, "valuta"),
     discount_percent |-> Get(item, "percentuale_sconto"),
     absolute_discount |-> Get(item, "sconto_assoluto"),
     discount_value |-> Get(item, "valore_scontato")]

\* The run ends: what it reported, and the run remembered as the latest
\* successful one.
Finish(s, st) ==
    /\ status' = [status EXCEPT ![s] = st]
    /\ pc' = [pc EXCEPT ![s] = "idle"]
    /\ lastRun' = IF st = "success"
                    THEN [file |-> loc[s].file, x |-> loc[s].x] ELSE NoRun

\* run_ocr_and_save_json for a listed image that exists in Images, with the
\* answers x of the two model calls, up to the call of save_json_to_folder.
IngestBegin(s, f, x) ==
    LET fixed == fix_json_data(x.payload, x.review, session_state[s], f)
        st == IF EarlyStatus(x) # "ok" THEN EarlyStatus(x)
              ELSE IF fixed.stop THEN "awaiting_confirmation"
              ELSE "ok"
    IN
    /\ f \in everListed
    /\ f \in images
    /\ Start(s, [IdleLoc EXCEPT
                   !.op = "ingest", !.file = f, !.x = x,
                   !.raw = RawJsonString(x),
                   !.data = IF st = "ok" THEN fixed.final ELSE JNull,
                   !.rerun = /\ lastRun = [file |-> f, x |-> x]
                             /\ \A t \in Sessions : pc[t] = "idle"],
             IF st = "ok" THEN "running" ELSE st)
    /\ pc' = IF st = "ok" THEN [pc EXCEPT ![s] = "save_json"] ELSE pc
    /\ lastRun' = IF st = "ok" THEN lastRun ELSE NoRun
    /\ session_state' = IF EarlyStatus(x) = "ok"
                          THEN [session_state EXCEPT ![s] = fixed.ss]
                          ELSE session_state
    /\ UNCHANGED <<dbVars, itemCols, images, artifacts, everListed, dbLock>>

\* A run that goes on to the database although save_json_to_folder returned
\* None for an artifact that exists.
SaveJsonExists_GoesOn(s) ==
    /\ pc[s] = "save_json"
    /\ pc' = [pc EXCEPT ![s] =
                IF \E a \in artifacts : a.name = JsonFilename(loc[s].file)
                  THEN "get_receipt" ELSE "write_json"]
    /\ UNCHANGED <<dbVars, itemCols, images, artifacts, everListed, loc, lastIns,
                   dbLock, ops, status, lastRun, session_state>>

\* save_json_to_folder: os.path.exists(file_path); an existing artifact ends
\* the run with the warning "already exists ... No action taken".
SaveJsonExists(s) ==
    /\ pc[s] = "save_json"
    /\ IF \E a \in artifacts : a.name = JsonFilename(loc[s].file)
         THEN Finish(s, "artifact_exists")
         ELSE /\ pc' = [pc EXCEPT ![s] = "write_json"]
              /\ UNCHANGED <<status, lastRun>>
    /\ UNCHANGED <<dbVars, itemCols, images, artifacts, everListed, loc, lastIns,
                   dbLock, ops, session_state>>

\* save_json_to_folder: open(file_path, "w") and write json_content.
WriteJson(s) ==
    /\ pc[s] = "write_json"
    /\ artifacts' = { a \in artifacts : a.name # JsonFilename(loc[s].file) }
                     \cup {[name |-> JsonFilename(loc[s].file),
                            content |-> loc[s].data,
                            image |-> loc[s].file]}
    /\ pc' = [pc EXCEPT ![s] = "get_receipt"]
    /\ UNCHANGED <<dbVars, itemCols, images, everListed, loc, status, lastIns,
                   dbLock, lastRun, ops, session_state>>

\* A lookup whose result is handed to save_json_to_db without the test for
\* None.
GetReceipt_NoNoneCheck(s) ==
    /\ pc[s] = "get_receipt"
    /\ loc' = [loc EXCEPT ![s].rid = ReceiptIdOf(loc[s].file)]
    /\ pc' = [pc EXCEPT ![s] = "insert_header"]
    /\ UNCHANGED <<dbVars, itemCols, images, artifacts, everListed, lastIns,
                   dbLock, ops, status, lastRun, session_state>>

\* get_data(receipts, "Id", {"File_path": image}); no row: "No matching
\* receipt found in database."
GetReceipt(s) ==
    /\ pc[s] = "get_receipt"
    /\ IF ReceiptIdOf(loc[s].file) = None
         THEN /\ Finish(s, "orphan_receipt")
              /\ loc' = loc
         ELSE /\ loc' = [loc EXCEPT ![s].rid = ReceiptIdOf(loc[s].file)]
              /\ pc' = [pc EXCEPT ![s] = "insert_header"]
              /\ UNCHANGED <<status, lastRun>>
    /\ UNCHANGED <<dbVars, itemCols, images, artifacts, everListed, lastIns,
                   dbLock, ops, session_state>>

\* save_json_to_db: extracted_data_row, insert_data on extracted_data, and
\* the return of any result other than "inserted".
InsertHeader(s) ==
    LET json == loc[s].data
        row == HeaderRow(json, loc[s].rid)
        res == insert_data("extracted_data", row)
    IN  /\ pc[s] = "insert_header"
        /\ IF HeaderRaises(json)
             THEN /\ Finish(s, "raised")
                  /\ loc' = [loc EXCEPT ![s].hdr = "raise"]
                  /\ UNCHANGED <<dbVars, lastIns>>
             ELSE /\ InsertCommit("extracted_data", row, res)
                  /\ lastIns' = [lastIns EXCEPT
                                   ![s] = InsertLog("extracted_data", row, res)]
                  /\ loc' = [loc EXCEPT
                               ![s].hdr = res.ret,
                               ![s].hid = IF res.ret = "inserted"
                                            THEN Some(res.id) ELSE None]
                  /\ IF res.ret = "inserted"
                       THEN /\ pc' = [pc EXCEPT ![s] = "get_id"]
                            /\ UNCHANGED <<status, lastRun>>
                       ELSE Finish(s, ReportStatus(res.ret))
        /\ UNCHANGED <<itemCols, images, artifacts, everListed, dbLock, ops,
                       session_state>>

\* save_json_to_db: get_data for the id of the header, then the start of the
\* loop over lista_articoli (an empty list returns "inserted" at once).
GetExtractedId(s) ==
    LET json == loc[s].data IN
    /\ pc[s] = "get_id"
    /\ loc' = [loc EXCEPT ![s].edid = LastExtractedId(loc[s].rid), ![s].idx = 1]
    /\ IF ~ItemsIterable(json) THEN Finish(s, "raised")
       ELSE IF ItemsOf(json) = <<>> THEN Finish(s, ReportStatus("inserted"))
       ELSE /\ pc' = [pc EXCEPT ![s] = "insert_item"]
            /\ UNCHANGED <<status, lastRun>>
    /\ UNCHANGED <<dbVars, itemCols, images, artifacts, everListed, lastIns,
                   dbLock, ops, session_state>>

\* save_json_to_db: one turn of the loop; the result of insert_data is not
\* looked at, an exception ends the run.
InsertItem(s) ==
    LET item == ItemsOf(loc[s].data)[loc[s].idx]
        row == ItemDict(item, loc[s].edid)
        res == insert_data("receipt_items", row)
        last == loc[s].idx = Len(ItemsOf(loc[s].data))
    IN  /\ pc[s] = "insert_item"
        /\ IF ~IsDict(item)
             THEN /\ Finish(s, "raised")
                  /\ UNCHANGED <<dbVars, lastIns, loc>>
             ELSE /\ InsertCommit("receipt_items", row, res)
                  /\ lastIns' = [lastIns EXCEPT
                                   ![s] = InsertLog("receipt_items", row, res)]
                  /\ loc' = [loc EXCEPT ![s].idx = @ + 1]
                  /\ IF res.ret = "raise" THEN Finish(s, "raised")
                     ELSE IF last THEN Finish(s, ReportStatus("inserted"))
                     ELSE UNCHANGED <<pc, status, lastRun>>
        /\ UNCHANGED <<itemCols, images, artifacts, everListed, dbLock, ops,
                       session_state>>

----------------------------------------------------------------------------

Next ==
    \/ \E s \in Sessions, f \in Files : UploadBegin(s, f)
    \/ \E s \in Sessions : WriteImage(s)
    \/ \E s \in Sessions : InsertReceipt(s)
    \/ \E s \in Sessions, f \in Files : DeleteRow(s, f)
    \/ \E s \in Sessions : DeleteImage(s)
    \/ \E s \in Sessions : DeleteJson(s)
    \/ \E s \in Sessions, f \in Files, x \in Extractions : IngestBegin(s, f, x)
    \/ \E s \in Sessions : SaveJsonExists(s)
    \/ \E s \in Sessions : WriteJson(s)
    \/ \E s \in Sessions : GetReceipt(s)
    \/ \E s \in Sessions : InsertHeader(s)
    \/ \E s \in Sessions : GetExtractedId(s)
    \/ \E s \in Sessions : InsertItem(s)

Spec == Init /\ [][Next]_vars

----------------------------------------------------------------------------
(* insert_data on receipts, statement by statement, for callers that race   *)

\* Tables the race starts from: empty, one upload, an upload after a delete,
\* two uploads.
RaceTables ==
    { [rows |-> {}, last |-> 0],
      [rows |-> {[Id |-> 1, File_path |-> Some(<<"a", ".", "jpg">>)]}, last |-> 1],
      [rows |-> {[Id |-> 2, File_path |-> Some(<<"b", ".", "jpg">>)]}, last |-> 2],
      [rows |-> {[Id |-> 1, File_path |-> Some(<<"a", ".", "jpg">>)],
                 [Id |-> 2, File_path |-> Some(<<"a", ".", "png">>)]}, last |-> 2] }

InitRace ==
    /\ \E t \in RaceTables :
          /\ receipts = t.rows
          /\ seq = [n \in Tables |-> IF n = "receipts" THEN t.last ELSE 0]
    /\ extracted_data = {}
    /\ receipt_items = {}
    /\ itemCols = ItemColumnsDDL
    /\ images = {}
    /\ artifacts = {}
    /\ everListed = {}
    /\ pc = [s \in Sessions |-> "idle"]
    /\ loc = [s \in Sessions |-> IdleLoc]
    /\ status = [s \in Sessions |-> "none"]
    /\ lastIns = [s \in Sessions |-> NoInsert]
    /\ dbLock = 0
    /\ lastRun = NoRun
    /\ session_state = [s \in Sessions |-> NoCorrection]
    /\ ops = 0

\* A writer that ignores the lock another connection holds.
CanWrite_NoLock(s) == TRUE

\* c.execute(INSERT) takes SQLite's write lock: it waits while another
\* connection holds it.
CanWrite(s) == dbLock = 0

\* insert_data("documents.db", "receipts", {"File_path": f}) is called:
\* get_connection and conn.cursor().
RaceCall(s, f) ==
    /\ Start(s, [IdleLoc EXCEPT !.op = "insert", !.file = f,
                                !.rid = ReceiptIdOf(f)], "running")
    /\ pc' = [pc EXCEPT ![s] = "execute"]
    /\ UNCHANGED <<dbVars, itemCols, images, artifacts, everListed, dbLock, lastRun,
                   session_state>>

\* c.execute(query, values): the INSERT runs under the write lock against
\* the committed table; an IntegrityError leaves the transaction open.
RaceExecute(s) ==
    LET row == [File_path |-> Some(loc[s].file)]
        res == insert_data("receipts", row)
    IN  /\ pc[s] = "execute"
        /\ CanWrite(s)
        /\ dbLock' = s
        /\ lastIns' = [lastIns EXCEPT ![s] = InsertLog("receipts", row, res)]
        /\ loc' = [loc EXCEPT ![s].hid = IF res.ret = "inserted"
                                           THEN Some(res.id) ELSE None]
        /\ pc' = [pc EXCEPT ![s] = IF res.ret = "inserted" THEN "commit" ELSE "close"]
        /\ UNCHANGED <<dbVars, itemCols, images, artifacts, everListed, status,
                       lastRun, ops, session_state>>

\* conn.commit(): the row becomes visible and the lock is released.
RaceCommit(s) ==
    /\ pc[s] = "commit"
    /\ receipts' = receipts \cup
                      {ReceiptRow(loc[s].hid[1], [File_path |-> Some(loc[s].file)])}
    /\ seq' = [seq EXCEPT !["receipts"] = loc[s].hid[1]]
    /\ dbLock' = 0
    /\ pc' = [pc EXCEPT ![s] = "close"]
    /\ UNCHANGED <<extracted_data, receipt_items, itemCols, images, artifacts,
                   everListed, loc, status, lastIns, lastRun, ops,
                   session_state>>

\* finally: conn.close() rolls an open transaction back; the call returns.
RaceClose(s) ==
    /\ pc[s] = "close"
    /\ dbLock' = IF dbLock = s THEN 0 ELSE dbLock
    /\ status' = [status EXCEPT ![s] = lastIns[s].ret]
    /\ pc' = [pc EXCEPT ![s] = "idle"]
    /\ UNCHANGED <<dbVars, itemCols, images, artifacts, everListed, loc, lastIns,
                   lastRun, ops, session_state>>

NextRace ==
    \/ \E s \in Sessions, f \in Files : RaceCall(s, f)
    \/ \E s \in Sessions : RaceExecute(s)
    \/ \E s \in Sessions : RaceCommit(s)
    \/ \E s \in Sessions : RaceClose(s)

SpecRace == InitRace /\ [][NextRace]_vars

----------------------------------------------------------------------------
(* parse_json_from_string on the texts the JSON call can answer             *)

\* Length of the texts the JSON call answers with.
MaxTextLen == 3

\* The characters of an answer: braces, the members of the object (prose
\* where they stand outside the braces), a blank.
Alphabet == {"{", "}", "d", " "}

Texts == UNION { [1..n -> Alphabet] : n \in 0..MaxTextLen }

\* A run whose JSON call answers with the text t; the object of a text that
\* json.loads accepts is the record with the item Pane.
TextExtraction(t) ==
    Extraction(FALSE, <<"T">>, FALSE, t,
               [prezzo_totale |-> Total950, lista_articoli |-> JList(<<Pane>>)])

\* The answers the runs of this specification get.
TextExtractions == { TextExtraction(t) : t \in Texts }

\* a.jpg has been uploaded by session 1, and session 2 has tried to upload
\* it again.
InitParse ==
    /\ receipts = {[Id |-> 1, File_path |-> Some(<<"a", ".", "jpg">>)]}
    /\ extracted_data = {}
    /\ receipt_items = {}
    /\ seq = [t \in Tables |-> IF t = "receipts" THEN 1 ELSE 0]
    /\ itemCols \in {ItemColumnsDDL, ItemColumnsLegacy}
    /\ images = {<<"a", ".", "jpg">>}
    /\ artifacts = {}
    /\ everListed = {<<"a", ".", "jpg">>}
    /\ pc = [s \in Sessions |-> "idle"]
    /\ loc = [s \in Sessions |->
                IF s = 2 THEN [IdleLoc EXCEPT !.op = "upload",
                                              !.file = <<"a", ".", "jpg">>]
                ELSE IdleLoc]
    /\ status = [s \in Sessions |-> IF s = 2 THEN "skipped_folder" ELSE "none"]
    /\ lastIns = [s \in Sessions |-> NoInsert]
    /\ dbLock = 0
    /\ lastRun = NoRun
    /\ session_state = [s \in Sessions |-> NoCorrection]
    /\ ops = 2

NextParse ==
    \/ \E s \in Sessions, x \in TextExtractions :
           IngestBegin(s, <<"a", ".", "jpg">>, x)
    \/ \E s \in Sessions : SaveJsonExists(s)
    \/ \E s \in Sessions : WriteJson(s)
    \/ \E s \in Sessions : GetReceipt(s)
    \/ \E s \in Sessions : InsertHeader(s)
    \/ \E s \in Sessions : GetExtractedId(s)
    \/ \E s \in Sessions : InsertItem(s)

SpecParse == InitParse /\ [][NextParse]_vars

----------------------------------------------------------------------------
(* init_database, uploads and deletes on a database in use                  *)

\* A database file in which init_database has created no table yet.
NoTables == {}

\* CREATE TABLE without IF NOT EXISTS after a DROP TABLE IF EXISTS: the table
\* is made anew with the columns of the statement.
create_table_Recreate(exists, cols, rows, ddl) == [cols |-> ddl, rows |-> {}]

\* create_table with a CREATE TABLE IF NOT EXISTS statement: a table that
\* exists keeps its columns and its rows, a missing one is created empty
\* with the columns of the statement.
create_table(exists, cols, rows, ddl) ==
    IF exists THEN [cols |-> cols, rows |-> rows]
    ELSE [cols |-> ddl, rows |-> {}]

\* init_database(), which app.py calls at the top of every script run: the
\* three create_table calls.
init_database(s) ==
    LET exists == itemCols # NoTables
        r == create_table(exists, ReceiptsColumns, receipts, ReceiptsColumns)
        e == create_table(exists, ExtractedColumns, extracted_data,
                          ExtractedColumns)
        i == create_table(exists, itemCols, receipt_items, ItemColumnsDDL)
    IN  /\ Start(s, [IdleLoc EXCEPT !.op = "init"], "none")
        /\ receipts' = r.rows
        /\ extracted_data' = e.rows
        /\ receipt_items' = i.rows
        /\ itemCols' = i.cols
        /\ UNCHANGED <<seq, images, artifacts, everListed, pc, dbLock, lastRun,
                       session_state>>

\* The rows and files of a.jpg, uploaded and ingested with the record of the
\* item Pane.
ReceiptA == [Id |-> 1, File_path |-> Some(<<"a", ".", "jpg">>)]
HeaderA == ExtractedRow(1, HeaderRow([prezzo_totale |-> Total950], Some(1)))
ItemA == ItemRow(1, ItemDict(Pane, Some(1)))

\* Databases and folders the handlers start from: a new file without
\* tables; the empty tables of init_database; a.jpg uploaded and ingested
\* (header only with the columns of init_database, header and item with
\* the longer table); a second row for a.jpg, inserted by an upload that a
\* delete of a.jpg overtook, so that the image is gone.
Stores ==
    { [cols |-> NoTables, receipts |-> {}, extracted_data |-> {},
       receipt_items |-> {}, images |-> {}, listed |-> {}],
      [cols |-> ItemColumnsDDL, receipts |-> {}, extracted_data |-> {},
       receipt_items |-> {}, images |-> {}, listed |-> {}],
      [cols |-> ItemColumnsDDL, receipts |-> {ReceiptA},
       extracted_data |-> {HeaderA}, receipt_items |-> {},
       images |-> {<<"a", ".", "jpg">>}, listed |-> {<<"a", ".", "jpg">>}],
      [cols |-> ItemColumnsLegacy, receipts |-> {ReceiptA},
       extracted_data |-> {HeaderA}, receipt_items |-> {ItemA},
       images |-> {<<"a", ".", "jpg">>}, listed |-> {<<"a", ".", "jpg">>}],
      [cols |-> ItemColumnsDDL,
       receipts |-> {[Id |-> 2, File_path |-> Some(<<"a", ".", "jpg">>)]},
       extracted_data |-> {}, receipt_items |-> {},
       images |-> {}, listed |-> {<<"a", ".", "jpg">>}] }

\* The largest key a table of such a database has given out.
StoreLastKey(d, table) ==
    Max({0} \cup (CASE table = "receipts" -> { r.Id : r \in d.receipts }
                  [] table = "extracted_data" -> { e.id : e \in d.extracted_data }
                  [] table = "receipt_items" -> { i.id : i \in d.receipt_items }))

InitStore ==
    /\ \E d \in Stores :
          /\ itemCols = d.cols
          /\ receipts = d.receipts
          /\ extracted_data = d.extracted_data
          /\ receipt_items = d.receipt_items
          /\ images = d.images
          /\ everListed = d.listed
          /\ seq = [t \in Tables |-> StoreLastKey(d, t)]
    /\ artifacts = { a \in {[name |-> <<"a", ".json">>,
                            content |-> [prezzo_totale |-> Total950,
                                         lista_articoli |-> JList(<<Pane>>)],
                            image |-> <<"a", ".", "jpg">>]} :
                       extracted_data # {} }
    /\ pc = [s \in Sessions |-> "idle"]
    /\ loc = [s \in Sessions |-> IdleLoc]
    /\ status = [s \in Sessions |-> "none"]
    /\ lastIns = [s \in Sessions |-> NoInsert]
    /\ dbLock = 0
    /\ lastRun = NoRun
    /\ session_state = [s \in Sessions |-> NoCorrection]
    /\ ops = 0

\* Every script run starts with init_database; the handlers run on the
\* tables it has created.
NextStore ==
    \/ \E s \in Sessions : init_database(s)
    \/ /\ itemCols # NoTables
       /\ \/ \E s \in Sessions, f \in Files : UploadBegin(s, f)
          \/ \E s \in Sessions : WriteImage(s)
          \/ \E s \in Sessions : InsertReceipt(s)
          \/ \E s \in Sessions, f \in Files : DeleteRow(s, f)
          \/ \E s \in Sessions : DeleteImage(s)
          \/ \E s \in Sessions : DeleteJson(s)

SpecStore == InitStore /\ [][NextStore]_vars

----------------------------------------------------------------------------
(* Ingestion and delete for two images with the same stem                   *)

\* The answers of runs that reach save_json_to_folder.
PairExtractions == { x \in Extractions : EarlyStatus(x) = "ok" }

\* One call of process_uploaded_file has saved a.jpg and a.png (the loop
\* over uploaded_files saves every file of the uploader).
InitPair ==
    /\ receipts = {[Id |-> 1, File_path |-> Some(<<"a", ".", "jpg">>)],
                   [Id |-> 2, File_path |-> Some(<<"a", ".", "png">>)]}
    /\ extracted_data = {}
    /\ receipt_items = {}
    /\ seq = [t \in Tables |-> IF t = "receipts" THEN 2 ELSE 0]
    /\ itemCols \in {ItemColumnsDDL, ItemColumnsLegacy}
    /\ images = {<<"a", ".", "jpg">>, <<"a", ".", "png">>}
    /\ artifacts = {}
    /\ everListed = {<<"a", ".", "jpg">>, <<"a", ".", "png">>}
    /\ pc = [s \in Sessions |-> "idle"]
    /\ loc = [s \in Sessions |-> IdleLoc]
    /\ status = [s \in Sessions |-> "none"]
    /\ lastIns = [s \in Sessions |-> NoInsert]
    /\ dbLock = 0
    /\ lastRun = NoRun
    /\ session_state = [s \in Sessions |-> NoCorrection]
    /\ ops = 1

NextPair ==
    \/ \E s \in Sessions, f \in Files, x \in PairExtractions :
           IngestBegin(s, f, x)
    \/ \E s \in Sessions : SaveJsonExists(s)
    \/ \E s \in Sessions : WriteJson(s)
    \/ \E s \in Sessions : GetReceipt(s)
    \/ \E s \in Sessions : InsertHeader(s)
    \/ \E s \in Sessions : GetExtractedId(s)
    \/ \E s \in Sessions : InsertItem(s)
    \/ \E s \in Sessions, f \in Files : DeleteRow(s, f)
    \/ \E s \in Sessions : DeleteImage(s)
    \/ \E s \in Sessions : DeleteJson(s)

SpecPair == InitPair /\ [][NextPair]_vars

----------------------------------------------------------------------------
(* Ingestion runs whose comparison finds differences                        *)

\* What the user types into the editor as the corrected JSON.
Corrected == [prezzo_totale |-> Total950, lista_articoli |-> JList(<<Latte>>)]

\* The comparison answers "DATI COERENTI", or it does not and the user has
\* typed nothing, a correction or a text that is not JSON, with or without
\* the button.
Reviews ==
    {Coherent}
    \cup { Review(FALSE, e, b) :
             e \in {None, Some(Corrected), Some(NotJson)}, b \in BOOLEAN }

\* The answers of the runs: one of two records, and a review.
FixExtractions ==
    { [x EXCEPT !.review = r] :
        x \in { e \in Extractions :
                  /\ EarlyStatus(e) = "ok"
                  /\ e.payload \in
                       { [prezzo_totale |-> Total950,
                          lista_articoli |-> JList(<<>>)],
                         [prezzo_totale |-> Total950,
                          lista_articoli |-> JList(<<Pane>>)] } },
        r \in Reviews }

\* One call of process_uploaded_file has saved a.jpg and b.jpg.
InitFix ==
    /\ receipts = {[Id |-> 1, File_path |-> Some(<<"a", ".", "jpg">>)],
                   [Id |-> 2, File_path |-> Some(<<"b", ".", "jpg">>)]}
    /\ extracted_data = {}
    /\ receipt_items = {}
    /\ seq = [t \in Tables |-> IF t = "receipts" THEN 2 ELSE 0]
    /\ itemCols \in {ItemColumnsDDL, ItemColumnsLegacy}
    /\ images = {<<"a", ".", "jpg">>, <<"b", ".", "jpg">>}
    /\ artifacts = {}
    /\ everListed = {<<"a", ".", "jpg">>, <<"b", ".", "jpg">>}
    /\ pc = [s \in Sessions |-> "idle"]
    /\ loc = [s \in Sessions |-> IdleLoc]
    /\ status = [s \in Sessions |-> "none"]
    /\ lastIns = [s \in Sessions |-> NoInsert]
    /\ dbLock = 0
    /\ lastRun = NoRun
    /\ session_state = [s \in Sessions |-> NoCorrection]
    /\ ops = 1

NextFix ==
    \/ \E s \in Sessions, f \in Files, x \in FixExtractions :
           IngestBegin(s, f, x)
    \/ \E s \in Sessions : SaveJsonExists(s)
    \/ \E s \in Sessions : WriteJson(s)
    \/ \E s \in Sessions : GetReceipt(s)
    \/ \E s \in Sessions : InsertHeader(s)
    \/ \E s \in Sessions : GetExtractedId(s)
    \/ \E s \in Sessions : InsertItem(s)

SpecFix == InitFix /\ [][NextFix]_vars

----------------------------------------------------------------------------
(* Properties                                                              *)

\* The extracted_data rows of a receipt id, and the items of a header id.
HeadersOf(rid) == { e \in extracted_data : e.receipt_id = rid }
ItemsUnder(hid) == { i \in receipt_items : i.extracted_data_id = hid }

\* Session s has finished an ingestion run.
RunEnded(s) == loc[s].op = "ingest" /\ pc[s] = "idle"

\* C1: an ingestion run that directly follows a successful run for the same
\* receipt with the same extraction output reports duplicate, and the
\* receipt then has exactly one extracted_data row.
C1_RerunReportsDuplicate ==
    \A s \in Sessions :
        (RunEnded(s) /\ loc[s].rerun) =>
            /\ status[s] = "duplicate"
            /\ Cardinality(HeadersOf(ReceiptIdOf(loc[s].file))) = 1

\* C2: extracted_data holds at most one row per receipt_id.
C2_OneHeaderPerReceipt ==
    \A e1, e2 \in extracted_data : e1.receipt_id = e2.receipt_id => e1 = e2

\* C3: once delete_data has removed a receipt row, no extracted_data row
\* with that receipt's id and no receipt_items row under such a row is left.
C3_DeleteCascades ==
    \A s \in Sessions :
        (loc[s].op = "delete" /\ loc[s].rid # None) =>
            /\ HeadersOf(loc[s].rid) = {}
            /\ \A i \in receipt_items :
                   \A e \in extracted_data :
                       i.extracted_data_id = Some(e.id) => e.receipt_id # loc[s].rid

\* C4: receipts never holds two rows with one File_path; insert_data on
\* receipts returns "inserted" and adds one row when no row has the
\* File_path, and returns "exists" and leaves the tables alone when one has.
C4_ReceiptInsertUnique ==
    [][ /\ \A r1, r2 \in receipts' : r1.File_path = r2.File_path => r1 = r2
        /\ \A s \in Sessions :
              (pc[s] = "insert_receipt" /\ pc'[s] = "idle") =>
                  IF \E r \in receipts : r.File_path = Some(loc[s].file)
                    THEN /\ lastIns'[s].ret = "exists"
                         /\ UNCHANGED dbVars
                    ELSE /\ lastIns'[s].ret = "inserted"
                         /\ receipts \subseteq receipts'
                         /\ Cardinality(receipts') = Cardinality(receipts) + 1
                         /\ \E r \in receipts' \ receipts :
                                r.File_path = Some(loc[s].file)
                         /\ UNCHANGED <<extracted_data, receipt_items>>
      ]_vars

\* C4 witness: an upload's insert_data met a stored row with its File_path.
C4_Witness ==
    \E s \in Sessions :
        /\ lastIns[s].table = "receipts"
        /\ lastIns[s].ret = "exists"
        /\ \E r \in receipts : r.File_path = Some(loc[s].file)

\* Two calls of insert_data on receipts that overlapped, both returned, for
\* one File_path.
Raced(s, t) ==
    /\ s # t
    /\ loc[s].op = "insert" /\ loc[t].op = "insert"
    /\ pc[s] = "idle" /\ pc[t] = "idle"
    /\ loc[s].file = loc[t].file

\* C5: of two concurrent insert_data calls with one File_path that no row
\* held when they were made, exactly one returns "inserted" and the other
\* "exists"; in every case one row holds the File_path afterwards.
C5_RaceOneInserted ==
    \A s, t \in Sessions :
        Raced(s, t) =>
            /\ Cardinality({ r \in receipts : r.File_path = Some(loc[s].file) }) = 1
            /\ {status[s], status[t]} \subseteq {"inserted", "exists"}
            /\ ~(status[s] = "inserted" /\ status[t] = "inserted")
            /\ (loc[s].rid = None /\ loc[t].rid = None) =>
                   {status[s], status[t]} = {"inserted", "exists"}

\* C5 witness: two overlapping calls for a File_path that was not stored
\* have both returned.
C5_Witness ==
    \E s, t \in Sessions :
        Raced(s, t) /\ loc[s].rid = None /\ loc[t].rid = None

EarlyFailures == {"empty_extraction", "no_json_found", "invalid_json"}

\* C6: a run that ends with empty_extraction, no_json_found or invalid_json
\* leaves the three tables and the artifact folder as they were, and an
\* artifact is written only by a run whose span json.loads accepted.
C6_EarlyFailureWritesNothing ==
    [][ /\ \A s \in Sessions :
              (pc[s] = "idle" /\ ops' = ops + 1 /\ status'[s] \in EarlyFailures) =>
                  UNCHANGED <<receipts, extracted_data, receipt_items, artifacts>>
        /\ (artifacts' \ artifacts # {}) =>
              \E s \in Sessions :
                  /\ pc[s] = "write_json" /\ pc'[s] = "get_receipt"
                  /\ parse_json_from_string(Strip(loc[s].x.llm_text)) # None
                  /\ JsonLoadsOk(parse_json_from_string(Strip(loc[s].x.llm_text))[1])
      ]_vars

\* C6 witness: a run ended with an early failure while rows and an artifact
\* of an earlier run are stored.
C6_Witness ==
    \E s \in Sessions :
        /\ RunEnded(s)
        /\ status[s] \in EarlyFailures
        /\ artifacts # {}
        /\ extracted_data # {}

\* C7: no ingestion run ends by raising to its caller.
C7_NoExceptionEscapes ==
    \A s \in Sessions : loc[s].op = "ingest" => status[s] # "raised"

\* C8: insert_data returns "exists" only when a row with the same unique
\* key is stored, and every failure other than a uniqueness violation is
\* returned as an error status.
C8_ExistsOnlyForStoredKey ==
    \A s \in Sessions :
        /\ lastIns[s].ret = "exists" => lastIns[s].key_stored
        /\ lastIns[s].fail \notin {"none", "unique"} => lastIns[s].ret = "error"

\* Entry k of lista_articoli is stored as a row under header hid.
EntryStored(json, k, hid) ==
    /\ IsDict(ItemsOf(json)[k])
    /\ \E i \in ItemsUnder(hid) :
          /\ i.name = Get(ItemsOf(json)[k], "nome")
          /\ i.quantity = Get(ItemsOf(json)[k], "quantita")
          /\ i.price = Get(ItemsOf(json)[k], "prezzo")
          /\ i.currency = Get(ItemsOf(json)[k], "valuta")
          /\ i.discount_percent = Get(ItemsOf(json)[k], "percentuale_sconto")
          /\ i.absolute_discount = Get(ItemsOf(json)[k], "sconto_assoluto")

\* C9: after a run of save_json_to_db has ended, the header row and one
\* receipt_items row per entry of lista_articoli are stored, or none of them
\* is.
C9_HeaderAndItemsTogether ==
    \A s \in Sessions :
        (RunEnded(s) /\ loc[s].hdr # "none") =>
            \/ /\ loc[s].hid # None
               /\ \E e \in extracted_data : Some(e.id) = loc[s].hid
               /\ ItemsIterable(loc[s].data)
               /\ Cardinality(ItemsUnder(loc[s].hid)) = Len(ItemsOf(loc[s].data))
               /\ \A k \in 1..Len(ItemsOf(loc[s].data)) :
                      EntryStored(loc[s].data, k, loc[s].hid)
            \/ /\ loc[s].hid = None
               /\ loc[s].idx = 0

\* C10: items are inserted only after the header insert of the run returned
\* "inserted"; "exists" ends the run with duplicate and no item insert;
\* "inserted" ends it with the items inserted and success.
C10_ItemsGated ==
    \A s \in Sessions :
        /\ (loc[s].op = "ingest" /\ loc[s].idx > 0) => loc[s].hdr = "inserted"
        /\ (RunEnded(s) /\ loc[s].hdr = "exists") =>
               (status[s] = "duplicate" /\ loc[s].idx = 0)
        /\ (RunEnded(s) /\ loc[s].hdr = "inserted") =>
               (status[s] = "success" /\ loc[s].idx = Len(ItemsOf(loc[s].data)) + 1)

\* A receipts row holds the File_path f.
RowOf(f) == \E r \in receipts : r.File_path = Some(f)

\* C11: a run that reaches the lookup of its receipt while receipts holds no
\* row with the image's File_path ends there with orphan_receipt, and neither
\* that step nor the run inserts an extracted_data or a receipt_items row.
C11_OrphanReceipt ==
    [][ \A s \in Sessions :
          (pc[s] = "get_receipt" /\ pc'[s] # "get_receipt" /\ ~RowOf(loc[s].file)) =>
              /\ pc'[s] = "idle"
              /\ status'[s] = "orphan_receipt"
              /\ UNCHANGED <<receipts, extracted_data, receipt_items>>
              /\ loc'[s].hdr = "none" /\ loc'[s].hid = None /\ loc'[s].idx = 0
      ]_vars

\* C11 witness: a run has ended with orphan_receipt, its artifact written.
C11_Witness ==
    \E s \in Sessions :
        /\ RunEnded(s)
        /\ status[s] = "orphan_receipt"
        /\ ~RowOf(loc[s].file)
        /\ \E a \in artifacts : a.name = JsonFilename(loc[s].file)

\* C12: an artifact that exists keeps its content as long as it exists, and
\* it disappears only in the delete operation's removal of that name.
C12_ArtifactNeverOverwritten ==
    [][ \A a \in artifacts :
          /\ (\E b \in artifacts' : b.name = a.name) =>
                 \E b \in artifacts' : b.name = a.name /\ b.content = a.content
          /\ (~\E b \in artifacts' : b.name = a.name) =>
                 \E s \in Sessions :
                     /\ pc[s] = "delete_json" /\ pc'[s] = "idle"
                     /\ JsonFilename(loc[s].file) = a.name
      ]_vars

C14_ImagesMatchRows ==
    (\A s \in Sessions :
        pc[s] \notin {"write_image", "insert_receipt", "delete_image", "delete_json"})
    => \A f \in Files : f \in images <=> RowOf(f)

\* prezzo_totale.valore as the record declares it.
DeclaredTotal(json) ==
    IF "prezzo_totale" \in DOMAIN json /\ IsDict(json.prezzo_totale)
         /\ "valore" \in DOMAIN json.prezzo_totale
      THEN json.prezzo_totale.valore ELSE None

\* C15: the extracted_data row a run inserted holds as total_price the
\* prezzo_totale.valore of the record the run persisted, whatever the items.
C15_DeclaredTotalKept ==
    \A s \in Sessions :
        (loc[s].op = "ingest" /\ loc[s].hid # None) =>
            \E e \in extracted_data :
                /\ Some(e.id) = loc[s].hid
                /\ e.total_price = DeclaredTotal(loc[s].data)

\* C15 witness: a run stored a header with the declared total 9.50 and
\* items whose prices sum to another amount.
C15_Witness ==
    \E s \in Sessions :
        /\ RunEnded(s)
        /\ loc[s].hid # None
        /\ DeclaredTotal(loc[s].data) = Some(950)
        /\ ItemsUnder(loc[s].hid) # {}
        /\ PriceSum(ItemsOf(loc[s].data)) # 950

\* Session s has ended a run with success and the header it inserted.
Persisted(s) == RunEnded(s) /\ status[s] = "success" /\ loc[s].hid # None

\* The item entries of a record that carry a name (the rows of a run are
\* told apart by it).
NamedEntries(json) ==
    { k \in 1..Len(ItemsOf(json)) :
        IsDict(ItemsOf(json)[k]) /\ Get(ItemsOf(json)[k], "nome") # None }

\* An amount in hundredths divided by 100 and rounded to the hundredth.
RoundDiv100(n) == (n + 50) \div 100

\* C16: the row stored for an item with quantita above 1 and a prezzo holds
\* prezzo times quantita as price.
C16_QuantityScaled ==
    \A s \in Sessions :
        Persisted(s) =>
            \A k \in NamedEntries(loc[s].data) :
                LET item == ItemsOf(loc[s].data)[k] IN
                (/\ Get(item, "quantita") # None
                 /\ Get(item, "prezzo") # None
                 /\ item.quantita[1] > 1) =>
                    \E i \in ItemsUnder(loc[s].hid) :
                        /\ i.name = item.nome
                        /\ i.price = Some(item.prezzo[1] * item.quantita[1])

\* The discounted value the precedence rule gives for a price, a percent and
\* an absolute discount.
RuleDiscountValue(price, percent, absolute) ==
    IF percent # None
      THEN Some(price[1] - RoundDiv100(price[1] * percent[1]))
    ELSE IF absolute # None THEN Some(price[1] - absolute[1])
    ELSE None

\* C17: every stored item with a price holds as discount_value the value the
\* precedence rule gives for its price, discount_percent and
\* absolute_discount, whatever valore_scontato the source carried.
C17_DiscountValueRecomputed ==
    \A s \in Sessions :
        Persisted(s) =>
            \A i \in ItemsUnder(loc[s].hid) :
                i.price # None =>
                    i.discount_value =
                        RuleDiscountValue(i.price, i.discount_percent,
                                          i.absolute_discount)

\* The effective cost of an item after the repairs: the discounted value,
\* else the price (times quantita when above 1), else 0.
EffectiveCost(item) ==
    LET q == Get(item, "quantita")
        p == Get(item, "prezzo")
        line == IF p = None THEN None
                ELSE IF q # None /\ q[1] > 1 THEN Some(p[1] * q[1]) ELSE p
        dv == IF line = None THEN None
              ELSE RuleDiscountValue(line, Get(item, "percentuale_sconto"),
                                     Get(item, "sconto_assoluto"))
    IN  IF dv # None THEN dv[1] ELSE IF line # None THEN line[1] ELSE 0

RECURSIVE EffectiveSum(_)
EffectiveSum(items) ==
    IF items = <<>> THEN 0
    ELSE (IF IsDict(Head(items)) THEN EffectiveCost(Head(items)) ELSE 0)
         + EffectiveSum(Tail(items))

Abs(n) == IF n < 0 THEN 0 - n ELSE n

\* abs(total - sum) > max(0.10, 0.01 * total), all amounts in hundredths.
OutOfTolerance(total, sum) ==
    100 * Abs(total - sum) > (IF total > 1000 THEN total ELSE 1000)

\* C18: a run that persisted a record with a declared total showed the
\* total-versus-items warning exactly when the total and the sum of the
\* effective costs differ by more than max(0.10, 1 % of the total).
C18_MismatchWarning ==
    \A s \in Sessions :
        (Persisted(s) /\ DeclaredTotal(loc[s].data) # None) =>
            ("total_mismatch" \in RunWarnings(status[s])
               <=> OutOfTolerance(DeclaredTotal(loc[s].data)[1],
                                  EffectiveSum(ItemsOf(loc[s].data))))

\* A record that can be stored but for item-level defects: an object as
\* total, a list of named items, and an item without price or items whose
\* sum is not the declared total.
ItemLevelDefect(json) ==
    /\ IsDict(json)
    /\ DeclaredTotal(json) # None
    /\ DeclaredTotal(json)[1] >= 0
    /\ ThreeChars(TotalField(json, "valuta"))
    /\ ItemsOf(json) # <<>>
    /\ NamedEntries(json) = 1..Len(ItemsOf(json))
    /\ \/ \E k \in NamedEntries(json) : Get(ItemsOf(json)[k], "prezzo") = None
       \/ EffectiveSum(ItemsOf(json)) # DeclaredTotal(json)[1]

\* C19: a run that hands save_json_to_db a record whose only defects are at
\* item level ends with success, the header and every item stored.
C19_ItemDefectsDoNotBlock ==
    \A s \in Sessions :
        (RunEnded(s) /\ loc[s].rid # None /\ ItemLevelDefect(loc[s].data)) =>
            /\ status[s] = "success"
            /\ \E e \in extracted_data : Some(e.id) = loc[s].hid
            /\ \A k \in 1..Len(ItemsOf(loc[s].data)) :
                   EntryStored(loc[s].data, k, loc[s].hid)

\* Session s ran parse_json_from_string on the stripped answer of its run.
Parsed(s) ==
    /\ loc[s].op = "ingest"
    /\ ~loc[s].x.ocr_raises /\ Strip(loc[s].x.ocr_text) # <<>>
    /\ ~loc[s].x.llm_raises

RECURSIVE Depth(_, _, _)
Depth(text, i, j) ==
    IF j < i THEN 0
    ELSE Depth(text, i, j - 1)
         + (IF text[j] = "{" THEN 1 ELSE IF text[j] = "}" THEN -1 ELSE 0)

\* The first complete object of a text: from its first "{" to the "}" that
\* closes it; None when that brace is never closed.
FirstCompleteObject(text) ==
    LET opens == { i \in 1..Len(text) : text[i] = "{" }
    IN  IF opens = {} THEN None
        ELSE LET first == Min(opens)
                 ends == { j \in first..Len(text) : Depth(text, first, j) = 0 }
             IN  IF ends = {} THEN None
                 ELSE Some(SubSeq(text, first, Min(ends)))

\* C21: for a text that holds a complete object, also one followed by prose
\* with "{" or "}" in it, parse_json_from_string returns that first complete
\* object.
C21_FirstCompleteObject ==
    \A s \in Sessions :
        (Parsed(s) /\ FirstCompleteObject(Strip(loc[s].x.llm_text)) # None) =>
            loc[s].raw = FirstCompleteObject(Strip(loc[s].x.llm_text))

\* A text with an opening brace that is never closed: no "}" follows its
\* first "{".
UnclosedBrace(text) ==
    /\ \E i \in 1..Len(text) : text[i] = "{"
    /\ \A i, j \in 1..Len(text) : (text[i] = "{" /\ i < j) => text[j] # "}"

\* C22: a run whose answer has an opening brace that is never closed ends
\* with status invalid_json.
C22_UnclosedBraceInvalidJson ==
    \A s \in Sessions :
        (Parsed(s) /\ UnclosedBrace(Strip(loc[s].x.llm_text))) =>
            status[s] = "invalid_json"

\* C22 as the code has it: such a run ends at the search for the brace span,
\* with status no_json_found and nothing written by it; invalid_json is the
\* status of an answer that has a span which json.loads rejects.
C22_UnclosedBraceNoJsonFound ==
    \A s \in Sessions :
        Parsed(s) =>
            /\ UnclosedBrace(Strip(loc[s].x.llm_text)) =>
                  /\ pc[s] = "idle"
                  /\ status[s] = "no_json_found"
                  /\ loc[s].raw = None
                  /\ loc[s].hdr = "none" /\ loc[s].hid = None
            /\ (loc[s].raw # None /\ ~JsonLoadsOk(loc[s].raw[1])) =>
                  /\ pc[s] = "idle"
                  /\ status[s] = "invalid_json"
                  /\ loc[s].hdr = "none" /\ loc[s].hid = None

\* C22 witness: the answer "{d", ended as no_json_found.
C22_Witness ==
    \E s \in Sessions :
        /\ Parsed(s)
        /\ Strip(loc[s].x.llm_text) = <<"{", "d">>
        /\ status[s] = "no_json_found"

\* C23: every stored row is within the ranges of the schema (total_price and
\* price NULL or >= 0, currencies NULL or of three characters, item name not
\* NULL, discount_percent NULL or in 0..100, the absolute discount NULL or
\* >= 0), and for each named item of a run that stored its header a row with
\* the item's quantity is stored.
C23_StoredRowsInRange ==
    /\ \A e \in extracted_data :
           NonNegative(e.total_price) /\ ThreeChars(e.total_currency)
    /\ \A i \in receipt_items :
           /\ i.name # None
           /\ NonNegative(i.price) /\ ThreeChars(i.currency)
           /\ Percent(i.discount_percent)
           /\ NonNegative(i.absolute_discount)
    /\ \A s \in Sessions :
           (RunEnded(s) /\ loc[s].hid # None) =>
               \A k \in NamedEntries(loc[s].data) :
                   \E i \in receipt_items :
                       /\ i.extracted_data_id = loc[s].hid
                       /\ i.name = Get(ItemsOf(loc[s].data)[k], "nome")
                       /\ i.quantity = Get(ItemsOf(loc[s].data)[k], "quantita")

\* Session s starts the handler op in this step.
Starts(s, op) == pc[s] = "idle" /\ ops' = ops + 1 /\ loc'[s].op = op

\* C24: a call of init_database on a database that has its tables leaves the
\* columns of receipt_items and the rows and keys of the three tables as
\* they are; the first call on a new file creates the tables empty.
C24_InitDatabaseIdempotent ==
    [][\A s \in Sessions :
         Starts(s, "init") =>
            /\ receipts' = receipts
            /\ extracted_data' = extracted_data
            /\ receipt_items' = receipt_items
            /\ seq' = seq
            /\ itemCols' = IF itemCols = NoTables THEN ItemColumnsDDL
                           ELSE itemCols]_vars

\* C24 witness: init_database has run on a database with rows in the three
\* tables and with the longer receipt_items table.
C24_Witness ==
    \E s \in Sessions :
        /\ loc[s].op = "init"
        /\ itemCols = ItemColumnsLegacy
        /\ receipts # {} /\ extracted_data # {} /\ receipt_items # {}

\* C25: an upload of a name that is a file of Images when the save step
\* looks ends there as skipped, with the folder and the tables as they were;
\* an insert for a name that receipts holds returns "exists" and leaves the
\* table as it was.
C25_ExistingFileNotSavedAgain ==
    [][\A s \in Sessions :
         /\ (Starts(s, "upload") /\ loc'[s].file \in images) =>
               /\ pc'[s] = "idle"
               /\ status'[s] = "skipped_folder"
               /\ UNCHANGED <<images, receipts, extracted_data, receipt_items,
                              seq>>
         /\ (/\ pc[s] = "insert_receipt" /\ pc'[s] = "idle"
             /\ \E r \in receipts : r.File_path = Some(loc[s].file)) =>
               /\ lastIns'[s].ret = "exists"
               /\ status'[s] = "skipped_db"
               /\ receipts' = receipts]_vars

\* C25 witness: one upload skipped for the file in Images, another one
\* answered "exists" by receipts, and still one row.
C25_Witness ==
    \E s, t \in Sessions :
        /\ loc[s].op = "upload" /\ status[s] = "skipped_folder"
        /\ loc[t].op = "upload" /\ status[t] = "skipped_db"
        /\ loc[s].file = loc[t].file
        /\ Cardinality(receipts) = 1

\* C30: a receipts row that an insert adds has an Id above every Id the
\* table has given out and above every Id stored, and no extracted_data row
\* carries that Id as receipt_id.
C30_ReceiptIdsNeverReused ==
    [][\A r \in receipts' \ receipts :
         /\ r.Id > seq["receipts"]
         /\ \A q \in receipts : r.Id > q.Id
         /\ \A e \in extracted_data : e.receipt_id # Some(r.Id)]_vars

\* C30 witness: a receipt uploaded after the delete of receipt 1, whose
\* extracted_data row is still stored.
C30_Witness ==
    /\ \E r \in receipts : r.Id = 2
    /\ \A r \in receipts : r.Id # 1
    /\ \E e \in extracted_data : e.receipt_id = Some(1)

\* C26: a run that finds the artifact of its receipt at the artifact step
\* ends there with the warning, without the lookup of the receipt and with
\* the tables, their keys and the artifacts as they were.
C26_ArtifactExistsNoDatabase ==
    [][\A s \in Sessions :
         (/\ pc[s] = "save_json" /\ pc'[s] # "save_json"
          /\ \E a \in artifacts : a.name = JsonFilename(loc[s].file)) =>
            /\ pc'[s] = "idle"
            /\ status'[s] = "artifact_exists"
            /\ loc'[s].rid = None /\ loc'[s].hdr = "none"
            /\ lastIns'[s] = NoInsert
            /\ UNCHANGED <<receipts, extracted_data, receipt_items, seq,
                           artifacts>>]_vars

\* C26 witness: a run ended at an artifact that an earlier run left without
\* a row in extracted_data for the receipt, which is still without one.
C26_Witness ==
    \E s \in Sessions :
        /\ RunEnded(s) /\ status[s] = "artifact_exists"
        /\ ReceiptIdOf(loc[s].file) # None
        /\ HeadersOf(ReceiptIdOf(loc[s].file)) = {}

\* C28: a receipt_items row that a run inserts carries, as extracted_data_id,
\* the id of the extracted_data row which that run inserted.
C28_ItemsUnderOwnHeader ==
    [][\A s \in Sessions :
         (pc[s] = "insert_item" /\ loc'[s].idx # loc[s].idx) =>
            \A i \in receipt_items' \ receipt_items :
                i.extracted_data_id = loc[s].hid]_vars

\* C27: a run ends at an artifact that exists only when that artifact was
\* written by a run for the same image, and the delete of an image removes
\* only an artifact that a run for that image wrote.
C27_NoInterference ==
    [][\A s \in Sessions :
         /\ (pc[s] = "save_json" /\ pc'[s] = "idle") =>
               \E a \in artifacts : /\ a.name = JsonFilename(loc[s].file)
                                    /\ a.image = loc[s].file
         /\ (pc[s] = "delete_json" /\ pc'[s] = "idle") =>
               \A a \in artifacts \ artifacts' : a.image = loc[s].file]_vars

\* fix_json_data has returned in the run of session s, whose comparison did
\* not answer "DATI COERENTI".
ReturnedAfterReview(s) ==
    /\ loc[s].op = "ingest"
    /\ EarlyStatus(loc[s].x) = "ok"
    /\ ~loc[s].x.review.coherent
    /\ status[s] # "awaiting_confirmation"

\* C29: the dictionary fix_json_data returns after a comparison that found
\* differences is the corrected_json_final of the session, and that was
\* confirmed, from a text made, while the image of this run was in process.
C29_OwnCorrectionOnly ==
    \A s \in Sessions :
        ReturnedAfterReview(s) =>
            /\ session_state[s].corrected_json_final = Some(loc[s].data)
            /\ session_state[s].final_image = Some(loc[s].file)

====
